---------------------------- MODULE Spec2Model ----------------------------
(***************************************************************************)
(* Identity resolution of politician names: the persisted name -> id       *)
(* mapping (politician_mapping.py) and the three-tier resolver of the      *)
(* pipeline (pipeline.py).                                                 *)
(*                                                                         *)
(* A Python str is a sequence of one-character strings, so that every      *)
(* character operation of the code (lower, strip, re.sub, split, replace)  *)
(* is computed as the code computes it.                                    *)
(***************************************************************************)
EXTENDS Integers, Sequences, FiniteSets, TLC

(***************************************************************************)
(* Characters and str methods                                             *)
(***************************************************************************)
LowerLetters ==
    {"a","b","c","d","e","f","g","h","i","j","k","l","m",
     "n","o","p","q","r","s","t","u","v","w","x","y","z"}

UpperToLower ==
    [A |-> "a", B |-> "b", C |-> "c", D |-> "d", E |-> "e", F |-> "f",
     G |-> "g", H |-> "h", I |-> "i", J |-> "j", K |-> "k", L |-> "l",
     M |-> "m", N |-> "n", O |-> "o", P |-> "p", Q |-> "q", R |-> "r",
     S |-> "s", T |-> "t", U |-> "u", V |-> "v", W |-> "w", X |-> "x",
     Y |-> "y", Z |-> "z"]

\* The characters str.split(), str.strip() and the regex class \s treat as
\* whitespace (those of the modelled alphabet).
WhiteSpace == {" ", "\t", "\n"}

\* Python's None.  No str equals it: every element of a str is one character.
None == <<"None">>

\* Python truthiness of an Optional[str]: None and "" are both false.
Truthy(x) == x # None /\ x # <<>>

\* str.lower() on one character.
LowerChar(c) == IF c \in DOMAIN UpperToLower THEN UpperToLower[c] ELSE c

\* str.lower()
Lower(s) == [i \in 1..Len(s) |-> LowerChar(s[i])]

\* str.strip(): leading and trailing whitespace removed.
RECURSIVE LStrip(_)
LStrip(s) ==
    IF s = <<>> THEN <<>>
    ELSE IF Head(s) \in WhiteSpace THEN LStrip(Tail(s)) ELSE s

RECURSIVE RStrip(_)
RStrip(s) ==
    IF s = <<>> THEN <<>>
    ELSE IF s[Len(s)] \in WhiteSpace THEN RStrip(SubSeq(s, 1, Len(s) - 1)) ELSE s

Strip(s) == LStrip(RStrip(s))

\* str.replace(old, new) for a one-character old: new is a str (maybe empty).
RECURSIVE Replace(_, _, _)
Replace(s, old, new) ==
    IF s = <<>> THEN <<>>
    ELSE (IF Head(s) = old THEN new ELSE <<Head(s)>>) \o Replace(Tail(s), old, new)

\* re.sub of a one-character class by " ": every character in cls becomes " ".
SubClass(s, cls) == [i \in 1..Len(s) |-> IF s[i] \in cls THEN " " ELSE s[i]]

\* re.sub(r"\s+", " ", s): every maximal run of whitespace becomes one space.
RECURSIVE CollapseSpace(_)
CollapseSpace(s) ==
    IF s = <<>> THEN <<>>
    ELSE IF Head(s) \in WhiteSpace
         THEN <<" ">> \o CollapseSpace(LStrip(s))
         ELSE <<Head(s)>> \o CollapseSpace(Tail(s))

\* str.split(): the maximal runs of non-whitespace characters, in order.
RECURSIVE SplitAcc(_, _, _)
SplitAcc(s, cur, acc) ==
    IF s = <<>> THEN (IF cur = <<>> THEN acc ELSE Append(acc, cur))
    ELSE IF Head(s) \in WhiteSpace
         THEN SplitAcc(Tail(s), <<>>, IF cur = <<>> THEN acc ELSE Append(acc, cur))
         ELSE SplitAcc(Tail(s), Append(cur, Head(s)), acc)

Split(s) == SplitAcc(s, <<>>, <<>>)

\* " ".join(tokens)
RECURSIVE Join(_)
Join(tokens) ==
    IF tokens = <<>> THEN <<>>
    ELSE IF Len(tokens) = 1 THEN tokens[1]
    ELSE tokens[1] \o <<" ">> \o Join(Tail(tokens))

\* [t for t in tokens if t and t not in drop]
RECURSIVE DropTokens(_, _)
DropTokens(tokens, drop) ==
    IF tokens = <<>> THEN <<>>
    ELSE (IF Head(tokens) # <<>> /\ Head(tokens) \notin drop
          THEN <<Head(tokens)>> ELSE <<>>) \o DropTokens(Tail(tokens), drop)

(***************************************************************************)
(* The two normalizers                                                     *)
(***************************************************************************)
\* Suffixes and titles PoliticianMapping._normalize_name drops.
MappingDrop ==
    { <<"j","r">>, <<"s","r">>, <<"i","i">>, <<"i","i","i">>, <<"i","v">>,
      <<"m","r">>, <<"m","r","s">>, <<"m","s">>, <<"d","r">>,
      <<"s","e","n">>, <<"s","e","n","a","t","o","r">>, <<"r","e","p">>,
      <<"r","e","p","r","e","s","e","n","t","a","t","i","v","e">>,
      <<"g","o","v">>, <<"g","o","v","e","r","n","o","r">> }

\* Suffixes and titles PoliticianIssuesPipeline._normalize_person_name drops.
PipelineDrop ==
    { <<"j","r">>, <<"s","r">>, <<"i","i">>, <<"i","i","i">>, <<"i","v">>,
      <<"s","e","n">>, <<"s","e","n","a","t","o","r">>, <<"r","e","p">>,
      <<"r","e","p","r","e","s","e","n","t","a","t","i","v","e">>,
      <<"g","o","v">>, <<"g","o","v","e","r","n","o","r">> }

\* The characters of a str outside the regex class [a-z\s-].
NotLetterSpaceHyphen(s) ==
    {s[i] : i \in 1..Len(s)} \ (LowerLetters \cup WhiteSpace \cup {"-"})

\* PoliticianMapping._normalize_name
_normalize_name(name) ==
    LET s1 == Strip(Lower(name))
        s2 == SubClass(s1, {".", ",", "'"})
        s3 == SubClass(s2, NotLetterSpaceHyphen(s2))
        s4 == Strip(CollapseSpace(s3))
        tokens == DropTokens(Split(Replace(s4, "-", <<" ">>)), MappingDrop)
    IN  Join(tokens)

\* PoliticianIssuesPipeline._normalize_person_name
_normalize_person_name(name) ==
    LET s1 == Replace(Replace(Replace(Strip(Lower(name)),
                  ",", <<" ">>), ".", <<" ">>), "'", <<" ">>)
        s2 == Join(Split(s1))
        tokens == DropTokens(Split(Replace(s2, "-", <<" ">>)), PipelineDrop)
    IN  Join(tokens)

(***************************************************************************)
(* difflib.SequenceMatcher(None, a, b).ratio() and the similarity score    *)
(*                                                                         *)
(* Positions are 1-based and ranges inclusive (lo..hi, empty when lo > hi).*)
(* No junk is configured and the automatic junk heuristic only applies to  *)
(* strings of 200 characters or more, so every character of b is matched.  *)
(***************************************************************************)
\* Length of the common run a[i..], b[j..] inside a[..ahi], b[..bhi].
RECURSIVE RunLen(_, _, _, _, _, _)
RunLen(a, i, ahi, b, j, bhi) ==
    IF i > ahi \/ j > bhi THEN 0
    ELSE IF a[i] # b[j] THEN 0
    ELSE 1 + RunLen(a, i + 1, ahi, b, j + 1, bhi)

SetMax(S) == CHOOSE x \in S : \A y \in S : y <= x
SetMin(S) == CHOOSE x \in S : \A y \in S : x <= y

\* SequenceMatcher.find_longest_match: <<i, j, k>> with k maximal, then the
\* earliest start i in a, then the earliest start j in b; k = 0 when no
\* character matches.
find_longest_match(a, alo, ahi, b, blo, bhi) ==
    LET runs == [p \in (alo..ahi) \X (blo..bhi) |->
                    RunLen(a, p[1], ahi, b, p[2], bhi)]
        k  == SetMax({0} \cup {runs[p] : p \in DOMAIN runs})
    IN  IF k = 0 THEN <<alo, blo, 0>>
        ELSE LET i == SetMin({p[1] : p \in {q \in DOMAIN runs : runs[q] = k}})
                 j == SetMin({p[2] : p \in {q \in DOMAIN runs :
                                              runs[q] = k /\ q[1] = i}})
             IN  <<i, j, k>>

\* Sum of the sizes of SequenceMatcher.get_matching_blocks(): the longest
\* match, then recursively the pieces to its left and to its right.
RECURSIVE MatchingSize(_, _, _, _, _, _)
MatchingSize(a, alo, ahi, b, blo, bhi) ==
    IF alo > ahi \/ blo > bhi THEN 0
    ELSE LET m == find_longest_match(a, alo, ahi, b, blo, bhi)
         IN  IF m[3] = 0 THEN 0
             ELSE m[3]
                  + MatchingSize(a, alo, m[1] - 1, b, blo, m[2] - 1)
                  + MatchingSize(a, m[1] + m[3], ahi, b, m[2] + m[3], bhi)

\* A score is the exact fraction <<numerator, denominator>> of the float the
\* code computes; the fractions compared here have small terms, so the float
\* comparisons of the code agree with the exact ones.
ScoreGt(x, y) == x[1] * y[2] > y[1] * x[2]
ScoreGe(x, y) == x[1] * y[2] >= y[1] * x[2]
ScoreMax(x, y) == IF ScoreGt(y, x) THEN y ELSE x
ZeroScore == <<0, 1>>

\* SequenceMatcher(None, a, b).ratio() = 2.0 * matches / (len(a) + len(b)),
\* and 1.0 when both are empty.
Ratio(a, b) ==
    IF Len(a) + Len(b) = 0 THEN <<1, 1>>
    ELSE <<2 * MatchingSize(a, 1, Len(a), b, 1, Len(b)), Len(a) + Len(b)>>

\* list.sort() on tokens: insertion of each token at its place in the order
\* of str comparison (by code point; the tokens are lowercase letters or
\* other characters ordered by CharOrder).
CharOrder == <<"\t", "\n", " ", "!", "'", ",", "-", ".", "0", "1", "2", "3",
               "4", "5", "6", "7", "8", "9",
               "A","B","C","D","E","F","G","H","I","J","K","L","M",
               "N","O","P","Q","R","S","T","U","V","W","X","Y","Z", "_",
               "a","b","c","d","e","f","g","h","i","j","k","l","m",
               "n","o","p","q","r","s","t","u","v","w","x","y","z">>

Ord(c) == CHOOSE i \in 1..Len(CharOrder) : CharOrder[i] = c

RECURSIVE StrLt(_, _)
StrLt(s, t) ==
    IF t = <<>> THEN FALSE
    ELSE IF s = <<>> THEN TRUE
    ELSE IF Head(s) = Head(t) THEN StrLt(Tail(s), Tail(t))
    ELSE Ord(Head(s)) < Ord(Head(t))

RECURSIVE InsertSorted(_, _)
InsertSorted(t, sorted) ==
    IF sorted = <<>> THEN <<t>>
    ELSE IF StrLt(t, Head(sorted)) THEN <<t>> \o sorted
    ELSE <<Head(sorted)>> \o InsertSorted(t, Tail(sorted))

RECURSIVE SortTokens(_)
SortTokens(tokens) ==
    IF tokens = <<>> THEN <<>>
    ELSE InsertSorted(tokens[Len(tokens)],
                      SortTokens(SubSeq(tokens, 1, Len(tokens) - 1)))

\* _token_sort_key (the same in both classes)
_token_sort_key(s) == Join(SortTokens(Split(s)))

\* PoliticianMapping._name_similarity
_name_similarity(a, b) ==
    IF a = <<>> \/ b = <<>> THEN ZeroScore
    ELSE ScoreMax(Ratio(a, b), Ratio(_token_sort_key(a), _token_sort_key(b)))


(***************************************************************************)
(* The inputs of the model                                                 *)
(***************************************************************************)
\* Raw names of the tabular source.
N_AlOz     == <<"A","l"," ","O","z">>
N_OzAl     == <<"O","z",","," ","A","l">>
N_aloz     == <<"a","l"," ","o","z">>
N_Jr       == <<"J","r",".">>
N_Dr       == <<"D","r",".">>
N_abcde    == <<"a","b","c","d","e">>
N_abcdef   == <<"a","b","c","d","e","f">>
N_abcdefg  == <<"a","b","c","d","e","f","g">>
N_bcdefg   == <<"b","c","d","e","f","g">>

\* The names the pipeline resolves.
RawNames == {N_AlOz, N_aloz, N_Jr, N_abcde, N_abcdef}

\* The names get_politician_id is called with directly, the empty name too.
LookupNames == {N_Dr, N_Jr, N_aloz, N_abcdef, <<>>}

\* Identity keys already in use in the remote store.
Id_p1 == <<"p","1">>
Id_p2 == <<"p","2">>

\* Entries a mapping file may hold when the process first starts.
LoadedEntries ==
    { <<N_AlOz, Id_p1>>, <<N_aloz, Id_p2>>, <<N_abcde, Id_p1>> }

\* Entries of the mapping file in the runs with direct lookups.
LookupLoadedEntries ==
    { <<N_OzAl, Id_p2>>, <<N_AlOz, Id_p1>>, <<N_abcde, Id_p1>> }

\* <<politician_id, name>> records the /politicians collection may hold.
RemoteRecords ==
    { <<Id_p2, N_AlOz>>, <<Id_p1, N_abcdef>> }

\* A name of the source in the spelling the spec's contract quotes, and the
\* plain spelling of the same name.
N_OBrienJr == <<"O","'","B","r","i","e","n",","," ","J","r",".">>
N_obrien   == <<"o","b","r","i","e","n">>

\* Plain names, and pairs of a plain name and another spelling of it.
PlainNames == {N_obrien, N_aloz}

Spellings == {<<n, n>> : n \in PlainNames} \cup {<<N_obrien, N_OBrienJr>>}

\* The punctuation both normalizers replace, and titles and suffixes a
\* spelling may carry.
Punctuation == {".", ",", "'"}

Titles == {<<"J","r">>, <<"D","r">>}

\* The names resolved and looked up in the runs that exercise the scoring
\* loops, the entries their mapping file may hold and the records of their
\* /politicians collection.
FuzzyNames == {N_abcde, N_abcdef, N_abcdefg, N_aloz}

FuzzyLoadedEntries ==
    { <<N_abcdef, Id_p1>>, <<N_bcdefg, Id_p2>>, <<N_abcde, Id_p1>> }

FuzzyRemoteRecords ==
    { <<Id_p1, N_abcdef>>, <<Id_p2, N_bcdefg>>, <<Id_p2, N_AlOz>> }

\* The politician names of the rows of issues_data; the empty name is one
\* store_issues_in_firebase skips.
SyncNames == {N_AlOz, N_abcde, <<>>}

\* The arguments of the direct calls of PoliticianMapping.add_mapping.
AddEntries == {<<N_AlOz, Id_p2>>, <<N_aloz, Id_p2>>, <<<<>>, Id_p1>>}

\* The issue column names of the rows: one name, and no name.
I_econ == <<"e", "c", "o", "n">>

SyncIssueCols == {I_econ, None}

\* The rows of the source: every name with an issue column, and a name
\* without one.
SyncRows ==
    {[politician_name |-> n, issue_col |-> I_econ] : n \in SyncNames}
        \cup {[politician_name |-> N_AlOz, issue_col |-> c] : c \in SyncIssueCols}

(***************************************************************************)
(* The normal forms and scores of the names above, computed once.  A call  *)
(* on a name outside the tables computes the function itself.              *)
(***************************************************************************)
KnownNames ==
    RawNames \cup LookupNames
    \cup {e[1] : e \in LoadedEntries \cup LookupLoadedEntries}
    \cup {r[2] : r \in RemoteRecords}
    \cup FuzzyNames
    \cup {e[1] : e \in FuzzyLoadedEntries}
    \cup {r[2] : r \in FuzzyRemoteRecords}

\* The function [x \in S |-> Op(x)] with every value computed: x :> v @@ ..
RECURSIVE Tabulate(_, _)
Tabulate(Op(_), S) ==
    IF S = {} THEN <<>>
    ELSE LET x == CHOOSE y \in S : TRUE
         IN  (x :> Op(x)) @@ Tabulate(Op, S \ {x})

NormalizedNames == Tabulate(_normalize_name, KnownNames)

NormalizedPersonNames == Tabulate(_normalize_person_name, KnownNames)

KnownForms ==
    {NormalizedNames[n] : n \in KnownNames}
    \cup {NormalizedPersonNames[n] : n \in KnownNames}

SimilarityOfPair(p) == _name_similarity(p[1], p[2])

Similarities == Tabulate(SimilarityOfPair, KnownForms \X KnownForms)

\* The score of one candidate in the loop of _best_fuzzy_politician_match.
_candidate_score(q, cand_norm) ==
    ScoreMax(Ratio(q, cand_norm),
             Ratio(_token_sort_key(q), _token_sort_key(cand_norm)))

CandidateScoreOfPair(p) == _candidate_score(p[1], p[2])

CandidateScores == Tabulate(CandidateScoreOfPair, KnownForms \X KnownForms)

NormalizeName(name) ==
    IF name \in KnownNames THEN NormalizedNames[name] ELSE _normalize_name(name)

NormalizePersonName(name) ==
    IF name \in KnownNames THEN NormalizedPersonNames[name]
    ELSE _normalize_person_name(name)

NameSimilarity(a, b) ==
    IF a \in KnownForms /\ b \in KnownForms THEN Similarities[<<a, b>>]
    ELSE _name_similarity(a, b)

CandidateScore(q, cand_norm) ==
    IF q \in KnownForms /\ cand_norm \in KnownForms THEN CandidateScores[<<q, cand_norm>>]
    ELSE _candidate_score(q, cand_norm)

\* PoliticianIssuesPipeline._slugify_person_name
_slugify_person_name(name) ==
    Replace(Replace(Replace(NormalizePersonName(name),
        "'", <<>>), ".", <<>>), " ", <<"_">>)

(***************************************************************************)
(* Ordered dictionaries: a Python dict is the sequence of its <<key,       *)
(* value>> pairs in insertion order.                                       *)
(***************************************************************************)
DictKeys(d) == {d[i][1] : i \in 1..Len(d)}

DictHas(d, k, v) == \E i \in 1..Len(d) : d[i] = <<k, v>>

\* d[k] for a key of d.
DictGet(d, k) == d[CHOOSE i \in 1..Len(d) : d[i][1] = k][2]

\* d[k] = v: the value is replaced in place when k is a key, else the pair
\* is appended.
DictSet(d, k, v) ==
    IF k \in DictKeys(d)
    THEN [i \in 1..Len(d) |-> IF d[i][1] = k THEN <<k, v>> ELSE d[i]]
    ELSE Append(d, <<k, v>>)

(***************************************************************************)
(* PoliticianMapping                                                       *)
(***************************************************************************)
\* The default threshold of get_politician_id, 0.90.
LookupThreshold == <<9, 10>>

\* The default of POLITICIAN_MATCH_THRESHOLD, 0.92.
MatchThreshold == <<23, 25>>

\* The fuzzy loop of get_politician_id from entry i on: the result is
\* best_match.  FuzzyStep is the body of the loop for entry i, whose
\* similarity to the query is ratio.
RECURSIVE FuzzyLoop(_, _, _, _, _, _), FuzzyStep(_, _, _, _, _, _, _)
FuzzyLoop(m, normalized_name, threshold, i, best_match, best_ratio) ==
    IF i > Len(m) THEN best_match
    ELSE FuzzyStep(m, normalized_name, threshold, i, best_match, best_ratio,
                   NameSimilarity(normalized_name, NormalizeName(m[i][1])))

\* A loop body that lets a later entry with an equal score replace the best.
FuzzyStep_LastWins(m, normalized_name, threshold, i, best_match, best_ratio, ratio) ==
    IF ScoreGe(ratio, best_ratio) /\ ScoreGe(ratio, threshold)
    THEN FuzzyLoop(m, normalized_name, threshold, i + 1, m[i][2], ratio)
    ELSE FuzzyLoop(m, normalized_name, threshold, i + 1, best_match, best_ratio)

FuzzyStep(m, normalized_name, threshold, i, best_match, best_ratio, ratio) ==
    IF ScoreGt(ratio, best_ratio) /\ ScoreGe(ratio, threshold)
    THEN FuzzyLoop(m, normalized_name, threshold, i + 1, m[i][2], ratio)
    ELSE FuzzyLoop(m, normalized_name, threshold, i + 1, best_match, best_ratio)

\* The entries of m whose normalized name is normalized_name.
ExactMatches(m, normalized_name) ==
    {i \in 1..Len(m) : NormalizeName(m[i][1]) = normalized_name}

\* A lookup whose exact phase returns the last exact match, not the first.
LookupNormalized_LastMatch(m, normalized_name, threshold) ==
    IF ExactMatches(m, normalized_name) # {}
    THEN m[SetMax(ExactMatches(m, normalized_name))][2]
    ELSE FuzzyLoop(m, normalized_name, threshold, 1, None, ZeroScore)

\* A lookup that scores every entry first and looks for an exact match only
\* when no entry reaches the threshold.
LookupNormalized_FuzzyFirst(m, normalized_name, threshold) ==
    IF Truthy(FuzzyLoop(m, normalized_name, threshold, 1, None, ZeroScore))
    THEN FuzzyLoop(m, normalized_name, threshold, 1, None, ZeroScore)
    ELSE IF ExactMatches(m, normalized_name) # {}
    THEN m[SetMin(ExactMatches(m, normalized_name))][2]
    ELSE None

\* get_politician_id once the name is normalized: the first exact match,
\* else the fuzzy loop.
LookupNormalized(m, normalized_name, threshold) ==
    IF ExactMatches(m, normalized_name) # {}
    THEN m[SetMin(ExactMatches(m, normalized_name))][2]
    ELSE FuzzyLoop(m, normalized_name, threshold, 1, None, ZeroScore)

\* PoliticianMapping.get_politician_id on the mappings m, threshold 0.90.
get_politician_id(m, politician_name) ==
    IF politician_name = <<>> THEN None
    ELSE LookupNormalized(m, NormalizeName(politician_name), LookupThreshold)

\* An add_mapping that writes the file but leaves self.mappings as it was.
add_mapping_NoStore(m, politician_name, politician_id) ==
    [mappings |-> m, save |-> Truthy(politician_name) /\ Truthy(politician_id)]

\* An add_mapping that keys the entry by the normalized name.
add_mapping_Normalized(m, politician_name, politician_id) ==
    IF ~Truthy(politician_name) \/ ~Truthy(politician_id)
    THEN [mappings |-> m, save |-> FALSE]
    ELSE [mappings |-> DictSet(m, NormalizeName(politician_name), politician_id),
          save |-> TRUE]

\* PoliticianMapping.add_mapping, up to the call of _save_mappings: the new
\* mappings, and whether _save_mappings is called.
add_mapping(m, politician_name, politician_id) ==
    IF ~Truthy(politician_name) \/ ~Truthy(politician_id)
    THEN [mappings |-> m, save |-> FALSE]
    ELSE [mappings |-> DictSet(m, politician_name, politician_id), save |-> TRUE]

\* The mapping file: absent, holding the JSON of a dict, or holding a
\* truncated text that json.load rejects.  json.dump and json.load of a dict
\* of str to str give back the same pairs in the same order.
AbsentFile == [kind |-> "absent", data |-> <<>>]
CorruptFile == [kind |-> "corrupt", data |-> <<>>]
JsonFile(m) == [kind |-> "json", data |-> m]

\* PoliticianMapping._load_mappings
_load_mappings(f) == IF f.kind = "json" THEN f.data ELSE <<>>

\* The outcomes of the file write of _save_mappings: it succeeds, open()
\* raises (the file is left as it was), or a write raises after open(.., 'w')
\* truncated the file.
IOOutcomes == {"ok", "open_error", "write_error"}

\* A save that logs the IOError and does not raise it again.
_save_mappings_Swallow(m, f, io) ==
    IF io = "ok" THEN [file |-> JsonFile(m), raised |-> FALSE]
    ELSE IF io = "open_error" THEN [file |-> f, raised |-> FALSE]
    ELSE [file |-> CorruptFile, raised |-> FALSE]

\* PoliticianMapping._save_mappings: the file afterwards, and whether the
\* IOError is raised to the caller.
_save_mappings(m, f, io) ==
    IF io = "ok" THEN [file |-> JsonFile(m), raised |-> FALSE]
    ELSE IF io = "open_error" THEN [file |-> f, raised |-> TRUE]
    ELSE [file |-> CorruptFile, raised |-> TRUE]

(***************************************************************************)
(* PoliticianIssuesPipeline                                                *)
(***************************************************************************)
\* _load_politicians_index on a snapshot of <<politician_id, name>> records
\* (name: the first non-empty of the payload's name fields).
RECURSIVE _load_politicians_index(_)
_load_politicians_index(snap) ==
    IF snap = <<>> THEN <<>>
    ELSE LET rest == _load_politicians_index(SubSeq(snap, 1, Len(snap) - 1))
             rec  == snap[Len(snap)]
         IN  IF Truthy(rec[1]) /\ Strip(rec[2]) # <<>>
             THEN DictSet(rest, NormalizePersonName(rec[2]), rec[1])
             ELSE rest

\* The scoring loop of _best_fuzzy_politician_match from candidate i on:
\* <<best_id, best_score>>.  BestStep is the body of the loop for candidate
\* i, whose score is score.
RECURSIVE BestLoop(_, _, _, _, _), BestStep(_, _, _, _, _, _)
BestLoop(idx, q, i, best_id, best_score) ==
    IF i > Len(idx) THEN <<best_id, best_score>>
    ELSE BestStep(idx, q, i, best_id, best_score, CandidateScore(q, idx[i][1]))

BestStep(idx, q, i, best_id, best_score, score) ==
    IF ScoreGt(score, best_score)
    THEN BestLoop(idx, q, i + 1, idx[i][2], score)
    ELSE BestLoop(idx, q, i + 1, best_id, best_score)

\* The end of _best_fuzzy_politician_match: the best candidate if its score
\* reaches the threshold.
AcceptBest(best, threshold) ==
    IF Truthy(best[1]) /\ ScoreGe(best[2], threshold) THEN best[1] ELSE None

\* _best_fuzzy_politician_match once the name is normalized to q.
MatchNormalized(idx, q, threshold) ==
    IF q = <<>> THEN None
    ELSE IF q \in DictKeys(idx) THEN DictGet(idx, q)
    ELSE AcceptBest(BestLoop(idx, q, 1, None, ZeroScore), threshold)

\* PoliticianIssuesPipeline._best_fuzzy_politician_match
_best_fuzzy_politician_match(idx, politician_name, threshold) ==
    IF idx = <<>> THEN None
    ELSE MatchNormalized(idx, NormalizePersonName(politician_name), threshold)

\* get_or_create_politician_id returns at Strategy 1: nothing is written.
Found(m, politician_id) ==
    [id |-> politician_id, tier |-> 1, consulted |-> FALSE,
     mappings |-> m, save |-> FALSE]

\* get_or_create_politician_id calls add_mapping with the id of Strategy 2
\* or 3.
Created(m, politician_name, politician_id, tier) ==
    LET a == add_mapping(m, politician_name, politician_id)
    IN  [id |-> politician_id, tier |-> tier, consulted |-> TRUE,
         mappings |-> a.mappings, save |-> a.save]

\* Strategies 2 and 3 of get_or_create_politician_id, id2 being the result
\* of _best_fuzzy_politician_match.
MatchOrGenerate(m, politician_name, id2) ==
    IF Truthy(id2) THEN Created(m, politician_name, id2, 2)
    ELSE Created(m, politician_name, _slugify_person_name(politician_name), 3)

\* A resolver that asks the /politicians index before the mapping file.
FoundOrCreated_RemoteFirst(m, idx, politician_name, id1) ==
    IF Truthy(_best_fuzzy_politician_match(idx, politician_name, MatchThreshold))
    THEN Created(m, politician_name,
             _best_fuzzy_politician_match(idx, politician_name, MatchThreshold), 2)
    ELSE IF Truthy(id1) THEN Found(m, id1)
    ELSE Created(m, politician_name, _slugify_person_name(politician_name), 3)

\* get_or_create_politician_id, id1 being the result of get_politician_id.
FoundOrCreated(m, idx, politician_name, id1) ==
    IF Truthy(id1) THEN Found(m, id1)
    ELSE MatchOrGenerate(m, politician_name,
             _best_fuzzy_politician_match(idx, politician_name, MatchThreshold))

\* PoliticianIssuesPipeline.get_or_create_politician_id up to the file
\* write: the id it returns if the write succeeds, the strategy that gave it,
\* whether the /politicians index was consulted, the mappings afterwards and
\* whether _save_mappings is called.
get_or_create_politician_id(m, idx, politician_name) ==
    FoundOrCreated(m, idx, politician_name, get_politician_id(m, politician_name))

(***************************************************************************)
(* Bounds and initial states                                               *)
(***************************************************************************)
\* Bounds of the model.
MaxLoaded  == 2
MaxRemote  == 1
MaxRows    == 3
MaxCrashes == 1
MaxCandidates == 2
MaxEdits   == 2

\* The sequences of at most n members of S, without repetition of a first
\* component (a JSON object holds a key once).
RECURSIVE DictsUpTo(_, _)
DictsUpTo(S, n) ==
    IF n = 0 THEN {<<>>}
    ELSE LET shorter == DictsUpTo(S, n - 1)
         IN  shorter \cup
             {Append(d, e) : <<d, e>> \in
                 {p \in shorter \X S : p[2][1] \notin DictKeys(p[1])}}

InitialFiles ==
    {AbsentFile, CorruptFile} \cup {JsonFile(m) : m \in DictsUpTo(LoadedEntries, MaxLoaded)}

LookupFiles ==
    {AbsentFile} \cup {JsonFile(m) : m \in DictsUpTo(LookupLoadedEntries, MaxLoaded)}

InitialIndexes ==
    {_load_politicians_index(snap) : snap \in DictsUpTo(RemoteRecords, MaxRemote)}

RECURSIVE SeqsUpTo(_, _)
\* The sequences of at most n elements of S.
SeqsUpTo(S, n) ==
    IF n = 0 THEN {<<>>}
    ELSE SeqsUpTo(S, n - 1)
         \cup {Append(q, x) : q \in {r \in SeqsUpTo(S, n - 1) : Len(r) = n - 1}, x \in S}

\* The rows store_issues_in_firebase may be given.
SyncData == SeqsUpTo(SyncRows, MaxRows)

FuzzyFiles ==
    {AbsentFile} \cup {JsonFile(m) : m \in DictsUpTo(FuzzyLoadedEntries, MaxLoaded)}

FuzzyIndexes ==
    {_load_politicians_index(snap) : snap \in DictsUpTo(FuzzyRemoteRecords, MaxCandidates)}

(***************************************************************************)
(* State                                                                   *)
(***************************************************************************)
VARIABLES
    mapping_file,       \* the file politician_mapping.json
    mappings,           \* PoliticianMapping.mappings
    politicians_index,  \* PoliticianIssuesPipeline.politicians_index
    running,            \* whether the process is alive
    rows,               \* calls of the resolver and of add_mapping so far
    crashes,            \* times the process was killed so far
    lastCall,           \* the last call of get_or_create_politician_id: its
                        \* argument, whether it returned or raised, the id,
                        \* the strategy, and the strategy of the call before
                        \* it if that one returned for the same name; or the
                        \* last direct call of add_mapping, with strategy 0
    lastLookup,         \* the last direct call of get_politician_id
    firstKey,           \* name -> the key its first resolution returned, in
                        \* this run and since the last direct add_mapping
    added,              \* <<name, id>> whose add_mapping returned, over all
                        \* runs, and was not overwritten by a later one
    unsaved,            \* <<name, id, held>> whose add_mapping raised, not yet
                        \* saved; held: the file had name -> id before the call
    sync,               \* the call of store_issues_in_firebase: its rows, the
                        \* row it is at, where it stands, its remote writes
    normalized          \* a name, a spelling of it, and the normal forms and
                        \* slug computed for the spelling

vars == <<mapping_file, mappings, politicians_index, running, rows, crashes,
          lastCall, lastLookup, firstKey, added, unsaved, sync, normalized>>

NoCall == [raw |-> <<>>, status |-> "none", id |-> None, tier |-> 0,
           consulted |-> FALSE, wrote |-> FALSE, prevTier |-> 0]
NoLookup == [called |-> FALSE, raw |-> <<>>, result |-> None]
NoKeys == [n \in RawNames \cup LookupNames \cup FuzzyNames |-> None]
NoSync == [data |-> <<>>, i |-> 1, pc |-> "idle", writes |-> 0]
NoNormal == [base |-> <<>>, raw |-> <<>>, edits |-> 0, name |-> <<>>,
             person |-> <<>>, slug |-> <<>>]

\* The state after PoliticianIssuesPipeline.__init__, the mapping file
\* being one of files.
InitWith(files) ==
    /\ mapping_file \in files
    /\ mappings = _load_mappings(mapping_file)
    /\ politicians_index \in InitialIndexes
    /\ running = TRUE
    /\ rows = 0
    /\ crashes = 0
    /\ lastCall = NoCall
    /\ lastLookup = NoLookup
    /\ firstKey = NoKeys
    /\ added = {}
    /\ unsaved = {}
    /\ sync = NoSync
    /\ normalized = NoNormal

Init == InitWith(InitialFiles)

InitLookup == InitWith(LookupFiles)

\* The start of a run with one of FuzzyFiles and one of FuzzyIndexes.
InitFuzzy ==
    /\ mapping_file \in FuzzyFiles
    /\ mappings = _load_mappings(mapping_file)
    /\ politicians_index \in FuzzyIndexes
    /\ running = TRUE
    /\ rows = 0
    /\ crashes = 0
    /\ lastCall = NoCall
    /\ lastLookup = NoLookup
    /\ firstKey = NoKeys
    /\ added = {}
    /\ unsaved = {}
    /\ sync = NoSync
    /\ normalized = NoNormal

(***************************************************************************)
(* Operations                                                              *)
(***************************************************************************)
\* The call get_or_create_politician_id(raw) in the current state.
CallOf(raw) == get_or_create_politician_id(mappings, politicians_index, raw)

\* The file write of a call c, if it makes one.
SaveOf(c, io) ==
    IF c.save THEN _save_mappings(c.mappings, mapping_file, io)
    ELSE [file |-> mapping_file, raised |-> FALSE]

\* The entries whose add_mapping returned, after a call that stored
\* name -> id if wrote, and raised in the file write if raised.
AddedAfter(name, id, wrote, raised) ==
    IF ~wrote THEN added
    ELSE {e \in added : e[1] # name}
            \cup (IF raised THEN {} ELSE {<<name, id>>})

\* The entries whose add_mapping raised, after such a call.
UnsavedAfter(name, id, wrote, raised) ==
    IF ~wrote THEN unsaved
    ELSE IF ~raised THEN {}
    ELSE {e \in unsaved : e[1] # name}
            \cup {<<name, id, DictHas(_load_mappings(mapping_file), name, id)>>}

\* get_or_create_politician_id(raw) runs to its end: it returns the id, or
\* raises the IOError of _save_mappings.
ResolveCall(raw, io) ==
    /\ running
    /\ rows < MaxRows
    /\ \E c \in {CallOf(raw)} : \E s \in {SaveOf(c, io)} :
           /\ c.save \/ io = "ok"
           /\ mappings' = c.mappings
           /\ mapping_file' = s.file
           /\ lastCall' = [raw |-> raw,
                           status |-> IF s.raised THEN "raised" ELSE "returned",
                           id |-> c.id, tier |-> c.tier,
                           consulted |-> c.consulted, wrote |-> c.save,
                           prevTier |-> IF lastCall.status = "returned"
                                           /\ lastCall.raw = raw
                                        THEN lastCall.tier ELSE 0]
           /\ firstKey' = IF ~s.raised /\ firstKey[raw] = None
                          THEN [firstKey EXCEPT ![raw] = c.id] ELSE firstKey
           /\ added' = AddedAfter(raw, c.id, c.save, s.raised)
           /\ unsaved' = UnsavedAfter(raw, c.id, c.save, s.raised)
    /\ rows' = rows + 1
    /\ lastLookup' = NoLookup
    /\ UNCHANGED <<politicians_index, running, crashes>>

\* A call of get_or_create_politician_id outside store_issues_in_firebase.
Resolve(raw, io) ==
    /\ ResolveCall(raw, io)
    /\ UNCHANGED <<sync, normalized>>

\* A direct call PoliticianMapping.add_mapping(name, id) runs to its end: it
\* returns, or raises the IOError of _save_mappings.
AddMapping(name, id, io) ==
    /\ running
    /\ rows < MaxRows
    /\ \E c \in {add_mapping(mappings, name, id)} : \E s \in {SaveOf(c, io)} :
           /\ c.save \/ io = "ok"
           /\ mappings' = c.mappings
           /\ mapping_file' = s.file
           /\ lastCall' = [raw |-> name,
                           status |-> IF s.raised THEN "raised" ELSE "returned",
                           id |-> id, tier |-> 0, consulted |-> FALSE,
                           wrote |-> c.save, prevTier |-> 0]
           /\ added' = AddedAfter(name, id, c.save, s.raised)
           /\ unsaved' = UnsavedAfter(name, id, c.save, s.raised)
    /\ rows' = rows + 1
    /\ lastLookup' = NoLookup
    /\ firstKey' = NoKeys
    /\ UNCHANGED <<politicians_index, running, crashes, sync, normalized>>

\* The process is killed inside the _save_mappings of the call c, after
\* open(.., 'w') truncated the file and before the JSON text is complete.
CrashInSave(c) ==
    /\ running
    /\ rows < MaxRows
    /\ crashes < MaxCrashes
    /\ c.save
    /\ mapping_file' = CorruptFile
    /\ running' = FALSE
    /\ crashes' = crashes + 1
    /\ rows' = rows + 1
    /\ mappings' = <<>>
    /\ lastCall' = NoCall
    /\ lastLookup' = NoLookup
    /\ firstKey' = NoKeys
    /\ unsaved' = {}
    /\ UNCHANGED <<politicians_index, added, sync, normalized>>

\* The process is killed, or exits, between two calls.
Crash ==
    /\ running
    /\ crashes < MaxCrashes
    /\ running' = FALSE
    /\ crashes' = crashes + 1
    /\ mappings' = <<>>
    /\ lastCall' = NoCall
    /\ lastLookup' = NoLookup
    /\ firstKey' = NoKeys
    /\ unsaved' = {}
    /\ UNCHANGED <<mapping_file, politicians_index, rows, added, sync, normalized>>

\* The process starts again: PoliticianMapping.__init__ loads the file, and
\* _load_politicians_index reads the /politicians collection as it is now,
\* or keeps the empty index when the read raises.
Restart ==
    /\ ~running
    /\ running' = TRUE
    /\ mappings' = _load_mappings(mapping_file)
    /\ politicians_index' \in InitialIndexes
    /\ UNCHANGED <<mapping_file, rows, crashes, lastCall,
                   lastLookup, firstKey, added, unsaved, sync, normalized>>

\* A direct call of PoliticianMapping.get_politician_id(raw).
Lookup(raw) ==
    /\ running
    /\ lastLookup' = [called |-> TRUE, raw |-> raw,
                      result |-> get_politician_id(mappings, raw)]
    /\ UNCHANGED <<mapping_file, mappings, politicians_index, running, rows,
                   crashes, lastCall, firstKey, added, unsaved, sync,
                   normalized>>

Next ==
    \/ \E raw \in RawNames, io \in IOOutcomes : Resolve(raw, io)
    \/ \E e \in AddEntries, io \in IOOutcomes : AddMapping(e[1], e[2], io)
    \/ \E raw \in RawNames : CrashInSave(CallOf(raw))
    \/ \E e \in AddEntries : CrashInSave(add_mapping(mappings, e[1], e[2]))
    \/ Crash
    \/ Restart

Spec == Init /\ [][Next]_vars

\* The upper-case letter of a lower-case one.
UpperChar(c) == CHOOSE u \in DOMAIN UpperToLower : UpperToLower[u] = c

\* The record of a spelling raw of the name base: the results of
\* _normalize_name, _normalize_person_name and _slugify_person_name on it.
NormalOf(base, raw, edits) ==
    [base |-> base, raw |-> raw, edits |-> edits,
     name |-> _normalize_name(raw),
     person |-> _normalize_person_name(raw),
     slug |-> _slugify_person_name(raw)]

\* A row of the source carries the name p[1] in the spelling p[2], and the
\* normalizers and the slugger are applied to it.
ReadName(p) ==
    /\ normalized = NoNormal
    /\ normalized' = NormalOf(p[1], p[2], 0)
    /\ UNCHANGED <<mapping_file, mappings, politicians_index, running, rows,
                   crashes, lastCall, lastLookup, firstKey, added, unsaved, sync>>

\* The source spells the name with letter i in upper case.
ChangeCase(i) ==
    /\ normalized # NoNormal
    /\ normalized.edits < MaxEdits
    /\ i \in 1..Len(normalized.raw)
    /\ normalized.raw[i] \in LowerLetters
    /\ normalized' = NormalOf(normalized.base,
                         [normalized.raw EXCEPT ![i] = UpperChar(normalized.raw[i])],
                         normalized.edits + 1)
    /\ UNCHANGED <<mapping_file, mappings, politicians_index, running, rows,
                   crashes, lastCall, lastLookup, firstKey, added, unsaved, sync>>

\* The source spells the name with the character c after position i.
InsertPunctuation(i, c) ==
    /\ normalized # NoNormal
    /\ normalized.edits < MaxEdits
    /\ i \in 0..Len(normalized.raw)
    /\ normalized' = NormalOf(normalized.base,
                         SubSeq(normalized.raw, 1, i) \o <<c>>
                            \o SubSeq(normalized.raw, i + 1, Len(normalized.raw)),
                         normalized.edits + 1)
    /\ UNCHANGED <<mapping_file, mappings, politicians_index, running, rows,
                   crashes, lastCall, lastLookup, firstKey, added, unsaved, sync>>

\* The source spells the name with a title before it or a suffix after it.
AddTitle(t, before) ==
    /\ normalized # NoNormal
    /\ normalized.edits < MaxEdits
    /\ normalized' = NormalOf(normalized.base,
                         IF before THEN t \o <<" ">> \o normalized.raw
                         ELSE normalized.raw \o <<" ">> \o t,
                         normalized.edits + 1)
    /\ UNCHANGED <<mapping_file, mappings, politicians_index, running, rows,
                   crashes, lastCall, lastLookup, firstKey, added, unsaved, sync>>

\* A process with no mapping file and no /politicians record, before it
\* reads a name.
InitNormalize ==
    /\ mapping_file = AbsentFile
    /\ mappings = _load_mappings(mapping_file)
    /\ politicians_index = <<>>
    /\ running = TRUE
    /\ rows = 0
    /\ crashes = 0
    /\ lastCall = NoCall
    /\ lastLookup = NoLookup
    /\ firstKey = NoKeys
    /\ added = {}
    /\ unsaved = {}
    /\ sync = NoSync
    /\ normalized = NoNormal

NextNormalize ==
    \/ \E p \in Spellings : ReadName(p)
    \/ \E i \in 1..(Len(N_OBrienJr) + MaxEdits * 3) : ChangeCase(i)
    \/ \E i \in 0..(Len(N_OBrienJr) + MaxEdits * 3), c \in Punctuation :
           InsertPunctuation(i, c)
    \/ \E t \in Titles, before \in BOOLEAN : AddTitle(t, before)

SpecNormalize == InitNormalize /\ [][NextNormalize]_vars

\* store_issues_in_firebase is called with the rows data.
InitSync ==
    /\ mapping_file \in InitialFiles
    /\ mappings = _load_mappings(mapping_file)
    /\ politicians_index \in InitialIndexes
    /\ running = TRUE
    /\ rows = 0
    /\ crashes = 0
    /\ lastCall = NoCall
    /\ lastLookup = NoLookup
    /\ firstKey = NoKeys
    /\ added = {}
    /\ unsaved = {}
    /\ \E data \in SyncData :
           sync = [data |-> data, i |-> 1, pc |-> "loop", writes |-> 0]
    /\ normalized = NoNormal

\* The loop of store_issues_in_firebase skips a row without a name or
\* without an issue column.
SkipRow ==
    /\ sync.pc = "loop"
    /\ sync.i <= Len(sync.data)
    /\ \/ ~Truthy(sync.data[sync.i].politician_name)
       \/ ~Truthy(sync.data[sync.i].issue_col)
    /\ sync' = [sync EXCEPT !.i = @ + 1]
    /\ UNCHANGED <<mapping_file, mappings, politicians_index, running, rows,
                   crashes, lastCall, lastLookup, firstKey, added, unsaved,
                   normalized>>

\* The loop of store_issues_in_firebase resolves the name of the next row;
\* an exception of get_or_create_politician_id ends the call.
StoreRow(io) ==
    /\ sync.pc = "loop"
    /\ sync.i <= Len(sync.data)
    /\ Truthy(sync.data[sync.i].politician_name)
    /\ Truthy(sync.data[sync.i].issue_col)
    /\ ResolveCall(sync.data[sync.i].politician_name, io)
    /\ sync' = IF lastCall'.status = "raised"
               THEN [sync EXCEPT !.pc = "failed"]
               ELSE [sync EXCEPT !.i = @ + 1]
    /\ UNCHANGED normalized

\* After the loop, db.reference(firebase_root_path).set(politician_issues)
\* succeeds or raises.
StoreWrite(ok) ==
    /\ sync.pc = "loop"
    /\ sync.i > Len(sync.data)
    /\ sync' = [sync EXCEPT !.writes = @ + 1,
                            !.pc = IF ok THEN "done" ELSE "failed"]
    /\ UNCHANGED <<mapping_file, mappings, politicians_index, running, rows,
                   crashes, lastCall, lastLookup, firstKey, added, unsaved,
                   normalized>>

NextSync ==
    \/ SkipRow
    \/ \E io \in IOOutcomes : StoreRow(io)
    \/ \E ok \in BOOLEAN : StoreWrite(ok)

SpecSync == InitSync /\ [][NextSync]_vars

\* Direct lookups between resolutions and direct calls of add_mapping that
\* write without failure.
NextLookup ==
    \/ \E raw \in LookupNames \ {<<>>} : Resolve(raw, "ok")
    \/ \E e \in AddEntries : AddMapping(e[1], e[2], "ok")
    \/ \E raw \in LookupNames : Lookup(raw)

SpecLookup == InitLookup /\ [][NextLookup]_vars

\* Resolutions and direct lookups over names that are close to one another.
NextFuzzy ==
    \/ \E raw \in FuzzyNames : Resolve(raw, "ok")
    \/ \E raw \in FuzzyNames : Lookup(raw)

SpecFuzzy == InitFuzzy /\ [][NextFuzzy]_vars


(***************************************************************************)
(* Properties                                                              *)
(***************************************************************************)
\* A step in which a call of get_or_create_politician_id ran to its end.
CallStep == rows' = rows + 1 /\ running' /\ lastCall'.tier \in 1..3

\* A step in which a direct call of add_mapping ran to its end.
AddStep == rows' = rows + 1 /\ running' /\ lastCall'.tier = 0

\* C1 (tier priority): whenever get_politician_id finds a key K1 for the name
\* of a call and _best_fuzzy_politician_match would give a different key K2,
\* the call returns K1 and does not consult the /politicians index.
C1_TierPriority ==
    [][ ( /\ CallStep
          /\ Truthy(get_politician_id(mappings, lastCall'.raw))
          /\ Truthy(_best_fuzzy_politician_match(politicians_index,
                        lastCall'.raw, MatchThreshold))
          /\ get_politician_id(mappings, lastCall'.raw)
               # _best_fuzzy_politician_match(politicians_index,
                     lastCall'.raw, MatchThreshold) )
        => ( /\ lastCall'.status = "returned"
             /\ lastCall'.id = get_politician_id(mappings, lastCall'.raw)
             /\ ~lastCall'.consulted ) ]_vars

\* A call returned the key of the mapping file although the index holds
\* another key for the same name.
C1_Witness ==
    /\ lastCall.status = "returned"
    /\ lastCall.tier = 1
    /\ Truthy(_best_fuzzy_politician_match(politicians_index, lastCall.raw,
                                           MatchThreshold))
    /\ _best_fuzzy_politician_match(politicians_index, lastCall.raw,
                                    MatchThreshold) # lastCall.id

\* C2 (resolver idempotence): a call for the name of the call just before it,
\* which returned a key, returns the same key and writes nothing: neither
\* self.mappings nor the mapping file changes.
C2_Idempotent ==
    [][ ( /\ CallStep
          /\ lastCall.status = "returned"
          /\ lastCall.tier \in 1..3
          /\ lastCall'.raw = lastCall.raw )
        => ( /\ lastCall'.status = "returned"
             /\ lastCall'.id = lastCall.id
             /\ ~lastCall'.wrote
             /\ mappings' = mappings
             /\ mapping_file' = mapping_file ) ]_vars

\* A name was resolved again right after the call that created its entry.
C2_Witness ==
    /\ lastCall.status = "returned"
    /\ lastCall.prevTier \in {2, 3}
    /\ lastCall.tier = 1


\* Entry i of m is the first one, in insertion order, whose normalized name
\* is that of raw.
FirstOfForm(m, i, raw) ==
    /\ i \in 1..Len(m)
    /\ _normalize_name(m[i][1]) = _normalize_name(raw)
    /\ \A j \in 1..(i - 1) : _normalize_name(m[j][1]) # _normalize_name(raw)

\* C3 as claimed (identity key stability): once the mappings hold an entry
\* keyed by the raw name r with key K, a call for r returns K.
C3_AsClaimed ==
    [][ (CallStep /\ lastCall'.raw \in DictKeys(mappings))
        => ( /\ lastCall'.status = "returned"
             /\ lastCall'.id = DictGet(mappings, lastCall'.raw) ) ]_vars

\* C3 as amended: while the mappings hold an entry keyed by the raw name r, a
\* call for r returns, at Strategy 1 and without consulting the index or the
\* slugger, the key of the first entry in insertion order whose normalized
\* name is that of r (the key of r's own entry when no earlier entry
\* normalizes like r), and the entries stay as they were.
C3_KeyStability ==
    [][ (CallStep /\ lastCall'.raw \in DictKeys(mappings))
        => ( /\ lastCall'.status = "returned"
             /\ lastCall'.tier = 1
             /\ ~lastCall'.consulted
             /\ \E i \in 1..Len(mappings) :
                    /\ FirstOfForm(mappings, i, lastCall'.raw)
                    /\ lastCall'.id = mappings[i][2]
             /\ (FirstOfForm(mappings,
                     CHOOSE i \in 1..Len(mappings) : mappings[i][1] = lastCall'.raw,
                     lastCall'.raw)
                 => lastCall'.id = DictGet(mappings, lastCall'.raw))
             /\ mappings' = mappings ) ]_vars

\* A call for a name with an entry of its own returned the key of that entry,
\* which this run created at an earlier call.
C3_Witness ==
    /\ lastCall.status = "returned"
    /\ lastCall.tier = 1
    /\ lastCall.raw \in DictKeys(mappings)
    /\ lastCall.id = DictGet(mappings, lastCall.raw)
    /\ <<lastCall.raw, lastCall.id>> \in added

\* C4 (reproducible resolution within a run): every call for a name returns
\* the key the first call for that name in the same run returned.
C4_Reproducible ==
    (running /\ lastCall.status = "returned" /\ lastCall.tier \in 1..3)
        => lastCall.id = firstKey[lastCall.raw]

\* C5 (promotion on a Tier-1 miss): after a call that returned a key from
\* Strategy 2 or 3, self.mappings and the mapping file both hold the entry
\* raw -> key.
C5_Promotion ==
    (running /\ lastCall.status = "returned" /\ lastCall.tier \in {2, 3})
        => ( /\ DictHas(mappings, lastCall.raw, lastCall.id)
             /\ DictHas(_load_mappings(mapping_file), lastCall.raw, lastCall.id) )

\* C6 (resolve is total): a call that returned, returned a non-empty key.
C6_Total ==
    (lastCall.status = "returned" /\ lastCall.tier \in 1..3)
        => Truthy(lastCall.id)

\* C7 (crash durability): whatever happened since, a running process holds
\* every entry whose add_mapping returned, in this run or one before it.
C7_Durable ==
    running => \A e \in added : DictHas(mappings, e[1], e[2])

\* The last call left its entry among those whose file write failed.
LastCallUnsaved ==
    \E e \in unsaved : e[1] = lastCall.raw /\ e[2] = lastCall.id

\* C8 as claimed (persist failure on add): a call whose file write failed has
\* raised and left its entry in self.mappings; as long as no later write
\* succeeds, every such entry is in self.mappings and not in the mapping
\* file, and once a write has succeeded the file holds self.mappings again.
C8_AsClaimed ==
    running
        => ( /\ \A e \in unsaved :
                    /\ DictHas(mappings, e[1], e[2])
                    /\ ~DictHas(_load_mappings(mapping_file), e[1], e[2])
             /\ (lastCall.wrote => (lastCall.status = "raised") = LastCallUnsaved)
             /\ (lastCall.status = "raised" => lastCall.wrote)
             /\ (unsaved = {} => _load_mappings(mapping_file) = mappings) )

\* C8 as amended: a call whose file write failed has raised and left its
\* entry in self.mappings; as long as no later write succeeds, every such
\* entry is in self.mappings, and it is in the mapping file only if the file
\* held that very entry before the call; once a write has succeeded the file
\* holds self.mappings again.
C8_PersistFailure ==
    running
        => ( /\ \A e \in unsaved :
                    /\ DictHas(mappings, e[1], e[2])
                    /\ (DictHas(_load_mappings(mapping_file), e[1], e[2]) => e[3])
             /\ (lastCall.wrote => (lastCall.status = "raised") = LastCallUnsaved)
             /\ (lastCall.status = "raised" => lastCall.wrote)
             /\ (unsaved = {} => _load_mappings(mapping_file) = mappings) )

\* A call raised the IOError of the file write, and self.mappings holds its
\* entry while the file does not.
C8_Witness ==
    /\ running
    /\ lastCall.status = "raised"
    /\ DictHas(mappings, lastCall.raw, lastCall.id)
    /\ ~DictHas(_load_mappings(mapping_file), lastCall.raw, lastCall.id)

\* C9 (entries are never updated): while the process runs, a step other
\* than a direct call of add_mapping leaves every entry of self.mappings in
\* place with its name and key, and adds at most one entry, which only a
\* call of get_or_create_politician_id adds and which is keyed by the raw
\* name of that call.
C9_NeverUpdated ==
    [][ (running /\ running' /\ ~AddStep)
        => ( /\ Len(mappings') \in {Len(mappings), Len(mappings) + 1}
             /\ SubSeq(mappings', 1, Len(mappings)) = mappings
             /\ (Len(mappings') = Len(mappings) + 1
                    => ( /\ CallStep
                         /\ mappings'[Len(mappings')][1] = lastCall'.raw
                         /\ lastCall'.raw \notin DictKeys(mappings) )) ) ]_vars

\* A call added its entry behind two entries that were there before.
C9_Witness ==
    /\ lastCall.wrote
    /\ lastCall.tier \in 1..3
    /\ Len(mappings) >= 3
    /\ mappings[Len(mappings)][1] = lastCall.raw
    /\ mappings[Len(mappings)][2] = lastCall.id

\* C10 as claimed (exact-after-normalization wins): if some stored name has
\* the normalized form of the queried name, get_politician_id returns the key
\* of the first such entry.
C10_AsClaimed ==
    (lastLookup.called
     /\ ExactMatches(mappings, _normalize_name(lastLookup.raw)) # {})
        => lastLookup.result
             = mappings[SetMin(ExactMatches(mappings,
                                   _normalize_name(lastLookup.raw)))][2]

\* C10 as amended: for a non-empty queried name, if some stored name has the
\* normalized form of the queried name, get_politician_id returns the key of
\* the first such entry in insertion order, whatever the other entries score.
C10_ExactWins ==
    (lastLookup.called
     /\ lastLookup.raw # <<>>
     /\ ExactMatches(mappings, _normalize_name(lastLookup.raw)) # {})
        => lastLookup.result
             = mappings[SetMin(ExactMatches(mappings,
                                   _normalize_name(lastLookup.raw)))][2]

\* A lookup returned the key of the exact entry although an entry before it,
\* with another key, scores at or above the threshold.
C10_Witness ==
    /\ lastLookup.called
    /\ lastLookup.raw # <<>>
    /\ ExactMatches(mappings, _normalize_name(lastLookup.raw)) # {}
    /\ \E i \in 1..Len(mappings) :
          /\ i < SetMin(ExactMatches(mappings, _normalize_name(lastLookup.raw)))
          /\ ScoreGe(_name_similarity(_normalize_name(lastLookup.raw),
                                      _normalize_name(mappings[i][1])),
                     LookupThreshold)
          /\ mappings[i][2] # lastLookup.result

\* The score of entry i of the mappings m against the normalized query nq,
\* and of candidate i of the index idx against the normalized query q.
EntryScore(m, nq, i) == NameSimilarity(nq, NormalizeName(m[i][1]))

IndexScore(idx, q, i) == CandidateScore(q, idx[i][1])

\* The entries of m, and the candidates of idx, that no other one outscores.
TopEntries(m, nq) ==
    {i \in 1..Len(m) :
        \A j \in 1..Len(m) : ~ScoreGt(EntryScore(m, nq, j), EntryScore(m, nq, i))}

TopCandidates(idx, q) ==
    {i \in 1..Len(idx) :
        \A j \in 1..Len(idx) : ~ScoreGt(IndexScore(idx, q, j), IndexScore(idx, q, i))}

\* The key of the first of them if its score reaches the threshold.
FirstTopEntry(m, nq, threshold) ==
    IF m # <<>> /\ ScoreGe(EntryScore(m, nq, SetMin(TopEntries(m, nq))), threshold)
    THEN m[SetMin(TopEntries(m, nq))][2]
    ELSE None

FirstTopCandidate(idx, q, threshold) ==
    IF idx # <<>> /\ ScoreGe(IndexScore(idx, q, SetMin(TopCandidates(idx, q))), threshold)
    THEN idx[SetMin(TopCandidates(idx, q))][2]
    ELSE None

\* C11 (fuzzy phase of lookup and bestMatch): without a normalized-exact hit,
\* get_politician_id returns the key of the first entry in insertion order
\* that has the highest similarity, provided that similarity is >= 0.90, and
\* None otherwise; a call of get_or_create_politician_id that consulted the
\* index returns at Strategy 2 the key of the first candidate with the
\* highest score, provided that score is >= 0.92, and otherwise falls
\* through to Strategy 3.
C11_FuzzyPhase ==
    /\ ( ( /\ lastLookup.called
           /\ ExactMatches(mappings, NormalizeName(lastLookup.raw)) = {} )
         => lastLookup.result
              = FirstTopEntry(mappings, NormalizeName(lastLookup.raw),
                              LookupThreshold) )
    /\ ( ( /\ lastCall.status = "returned"
           /\ lastCall.consulted
           /\ NormalizePersonName(lastCall.raw) \notin DictKeys(politicians_index) )
         => IF Truthy(FirstTopCandidate(politicians_index,
                          NormalizePersonName(lastCall.raw), MatchThreshold))
            THEN /\ lastCall.tier = 2
                 /\ lastCall.id
                      = FirstTopCandidate(politicians_index,
                            NormalizePersonName(lastCall.raw), MatchThreshold)
            ELSE lastCall.tier = 3 )

\* A call took, at Strategy 2, the key of the first of two candidates of the
\* index with the same highest score and different keys; the lookup after it
\* returned the key of the entry with the highest similarity although an
\* entry before it, with another key, reaches the threshold too.
C11_Witness ==
    /\ lastCall.status = "returned"
    /\ lastCall.tier = 2
    /\ NormalizePersonName(lastCall.raw) \notin DictKeys(politicians_index)
    /\ \E i, j \in TopCandidates(politicians_index, NormalizePersonName(lastCall.raw)) :
          /\ i < j
          /\ politicians_index[i][2] # politicians_index[j][2]
          /\ lastCall.id = politicians_index[i][2]
    /\ lastLookup.called
    /\ ExactMatches(mappings, NormalizeName(lastLookup.raw)) = {}
    /\ \E i \in 1..Len(mappings) :
          /\ i < SetMin(TopEntries(mappings, NormalizeName(lastLookup.raw)))
          /\ ScoreGe(EntryScore(mappings, NormalizeName(lastLookup.raw), i),
                     LookupThreshold)
          /\ mappings[i][2] # lastLookup.result
    /\ Truthy(lastLookup.result)

\* C12 (slug agrees with the normalizer): for every spelling of a name,
\* _slugify_person_name gives the result of _normalize_name with spaces
\* replaced by underscores, and _normalize_person_name gives the result of
\* _normalize_name.
C12_SlugAgrees ==
    /\ normalized.slug = Replace(normalized.name, " ", <<"_">>)
    /\ normalized.person = normalized.name

\* C14 (normalize is case/punctuation-insensitive): a spelling that differs
\* from the plain name only in letter case, in the characters . , ' and in
\* titles and suffixes has the normalized form of the plain name.
C14_Insensitive ==
    normalized.name = _normalize_name(normalized.base)

\* self.mappings as it was before the last call, which added at most its
\* own entry at the end.
MappingsBeforeLastCall ==
    IF lastCall.wrote THEN SubSeq(mappings, 1, Len(mappings) - 1) ELSE mappings

\* C13 (deterministic fallback): when a name that matched no entry and no
\* /politicians record was resolved at Strategy 3, and the next call resolves
\* a different string with the same normalized form that matched nothing
\* either, the second call returns the key the first call returned.
C13_DeterministicFallback ==
    [][ ( /\ CallStep
          /\ lastCall.status = "returned"
          /\ lastCall.tier = 3
          /\ lastCall'.raw # lastCall.raw
          /\ NormalizeName(lastCall'.raw) = NormalizeName(lastCall.raw)
          /\ get_politician_id(MappingsBeforeLastCall, lastCall'.raw) = None
          /\ _best_fuzzy_politician_match(politicians_index, lastCall'.raw,
                                          MatchThreshold) = None )
        => ( /\ lastCall'.status = "returned"
             /\ lastCall'.id = lastCall.id ) ]_vars

\* C15 (ordering of the sync): store_issues_in_firebase writes to the remote
\* store once, after the name of every row has been resolved; when a call of
\* get_or_create_politician_id raised, nothing was written to the remote
\* store and the mapping file holds the entries added for the rows before.
C15_SyncOrdering ==
    /\ sync.writes \in {0, 1}
    /\ (sync.writes = 1 => sync.i > Len(sync.data))
    /\ (sync.pc = "done" => sync.writes = 1)
    /\ ( (sync.pc = "failed" /\ lastCall.status = "raised")
         => ( /\ sync.writes = 0
              /\ \A e \in added :
                    DictHas(_load_mappings(mapping_file), e[1], e[2]) ) )

=============================================================================
